---- MODULE Spec2Model ----
(***************************************************************************)
(* go-cli-eth: the NFT ownership tracker.                                  *)
(*                                                                         *)
(* The model covers services.NFTService (GetAndStoreOwner, UpdateOwner,    *)
(* GetNFTByTokenID, GetAllNFTs), the nfts table behind database.GetDB(),   *)
(* the gin handlers of package handlers and the menu loop of main.runCLI.  *)
(* Every request is a process; its steps are split at the places where it  *)
(* touches state shared with other requests: the chain node, the wall      *)
(* clock and the nfts table.                                               *)
(*                                                                         *)
(* A second specification, SpecEntry, follows one start of the program     *)
(* from its command line through main's flag handling and one entry point  *)
(* (menu, path, JSON body) to the int64 conversion of GetOwnerOf, with     *)
(* token ids kept as decimal texts so that 32- and 64-bit edges are exact. *)
(***************************************************************************)
EXTENDS Integers, Sequences, FiniteSets, TLC

\* ------------------------------------------------------------------ bounds
NProcs   == 2      \* requests in flight at once in api mode
MaxClock == 2      \* the wall clock runs from 1 to MaxClock
MaxCalls == 2      \* requests served in one run

Procs == 1..NProcs

\* owner addresses the chain node may report (owner.Hex() of two addresses)
Owners == {"0x1111", "0x2222"}

\* a non-empty contract address
Contract == "0xBC4C"

\* ------------------------------------------------------- text and numbers
DigitChars == <<"0", "1", "2", "3", "4", "5", "6", "7", "8", "9">>

IsDigit(ch) == \E i \in 1..10 : DigitChars[i] = ch

DigitVal(ch) == (CHOOSE i \in 1..10 : DigitChars[i] = ch) - 1

RECURSIVE ParseDigits(_, _)
ParseDigits(s, acc) ==
    IF s = <<>> THEN acc
    ELSE ParseDigits(Tail(s), acc * 10 + DigitVal(Head(s)))

\* strconv.ParseUint(s, 10, 32): no sign, no underscore, at least one digit.
\* The texts drawn below are at most three characters long, so the value is
\* far below 1<<32 and the range error cannot arise.
ParseUint(s) ==
    IF s = <<>> \/ \E i \in 1..Len(s) : ~IsDigit(s[i])
    THEN [ok |-> FALSE, val |-> 0]
    ELSE [ok |-> TRUE, val |-> ParseDigits(s, 0)]

RECURSIVE FormatUint(_)
\* the decimal text fmt's %d verb and strconv.Itoa produce for n >= 0
FormatUint(n) ==
    IF n < 10 THEN <<DigitChars[n + 1]>>
    ELSE FormatUint(n \div 10) \o <<DigitChars[(n % 10) + 1]>>

\* strconv.Itoa(int(tokenID)); int(tokenID) = tokenID below 1<<63
Itoa(n) == IF n < 0 THEN <<"-">> \o FormatUint(0 - n) ELSE FormatUint(n)

\* the text of a number given by its decimal digits
Text(ds) == [i \in 1..Len(ds) |-> DigitChars[ds[i] + 1]]

RECURSIVE Strip(_)
\* a digit text without its leading zeros; the text of zero is "0"
Strip(s) == IF Len(s) > 1 /\ Head(s) = "0" THEN Strip(Tail(s)) ELSE s

\* a < b for two digit texts without leading zeros
DecLess(a, b) ==
    \/ Len(a) < Len(b)
    \/ /\ Len(a) = Len(b)
       /\ \E i \in 1..Len(a) :
            /\ DigitVal(a[i]) < DigitVal(b[i])
            /\ \A j \in 1..(i - 1) : a[j] = b[j]

RECURSIVE SubDigits(_, _, _)
\* a - b - borrow, digit by digit from the right, for two digit texts of
\* the same length with a >= b + borrow
SubDigits(a, b, borrow) ==
    IF a = <<>> THEN <<>>
    ELSE LET n == Len(a)
             d == DigitVal(a[n]) - DigitVal(b[n]) - borrow
         IN  SubDigits(SubSeq(a, 1, n - 1), SubSeq(b, 1, n - 1),
                       IF d < 0 THEN 1 ELSE 0)
             \o <<DigitChars[(IF d < 0 THEN d + 10 ELSE d) + 1]>>

\* a - b for two digit texts without leading zeros, a >= b
DecSub(a, b) ==
    Strip(SubDigits(a, [i \in 1..(Len(a) - Len(b)) |-> "0"] \o b, 0))

MaxUint32 == Text(<<4, 2, 9, 4, 9, 6, 7, 2, 9, 5>>)
MaxInt64  == Text(<<9, 2, 2, 3, 3, 7, 2, 0, 3, 6, 8, 5, 4, 7, 7, 5, 8, 0, 7>>)
MaxUint64 == Text(<<1, 8, 4, 4, 6, 7, 4, 4, 0, 7, 3, 7, 0, 9, 5, 5, 1, 6, 1, 5>>)
TwoTo64   == Text(<<1, 8, 4, 4, 6, 7, 4, 4, 0, 7, 3, 7, 0, 9, 5, 5, 1, 6, 1, 6>>)

\* the largest value of an unsigned integer of the given width
MaxUint(bits) == IF bits = 32 THEN MaxUint32 ELSE MaxUint64

\* strconv.ParseUint(s, 10, bitSize) over numbers of any size: the value
\* is kept as its digit text; a value above the width is a range error
ParseUintBits(s, bits) ==
    IF s = <<>> \/ \E i \in 1..Len(s) : ~IsDigit(s[i])
    THEN [ok |-> FALSE, val |-> <<>>]
    ELSE IF DecLess(MaxUint(bits), Strip(s))
         THEN [ok |-> FALSE, val |-> <<>>]
         ELSE [ok |-> TRUE, val |-> Strip(s)]

\* decoding the JSON number s into TokenID uint and validating it as
\* required: a JSON number has no leading zero, a uint takes no sign and no
\* value above its width, and a required field is not zero
BindUint(s, bits) ==
    IF /\ ParseUintBits(s, bits).ok
       /\ s = Strip(s)
       /\ s # <<"0">>
    THEN [ok |-> TRUE, val |-> s]
    ELSE [ok |-> FALSE, val |-> <<>>]

\* int64(v) of an unsigned 64-bit v, as a sign and a magnitude: a value
\* above 1<<63 - 1 comes out as v - 1<<64
Int64(v) ==
    IF DecLess(MaxInt64, v)
    THEN [neg |-> TRUE, mag |-> DecSub(TwoTo64, v)]
    ELSE [neg |-> FALSE, mag |-> v]

\* token id texts a client may put in the path or type at the prompt
TokenTexts ==
    { <<>>, <<"x">>, <<"-", "1">>, <<"0">>, <<"1">>, <<"0", "1">> }

\* the token_id values a JSON body may carry
BodyTokenIDs == {0, 1}

\* JSON request bodies of POST and PUT /api/nft/owner
JsonBodies ==
    { [json_ok |-> FALSE, contract_address |-> "", token_id |-> 0] } \cup
    { [json_ok |-> TRUE, contract_address |-> c, token_id |-> t] :
        c \in {"", Contract}, t \in BodyTokenIDs }

\* c.ShouldBindJSON(&req) with binding:"required" on both fields: a
\* required field holding its zero value fails the binding
ShouldBindJSON(body) ==
    /\ body.json_ok
    /\ body.contract_address # ""
    /\ body.token_id # 0

\* --------------------------------------------------------------- records
\* the zero value of models.NFT
ZeroNFT == [token_id |-> 0, owner |-> "", created_at |-> 0, updated_at |-> 0]

NoErr == <<"", <<>>, "">>

\* errors of the chain node call, as GetOwnerOf words them
ChainErrors == {"failed to call contract", "failed to unpack result"}

\* errors of the database driver
StoreFault   == "connection refused"
DuplicateKey == "duplicate key value violates unique constraint"

\* fmt.Errorf texts of the service, as <<prefix, number text, suffix>>; a
\* wrapped cause (%v) is the suffix
ErrChain(e)    == <<"failed to get owner from blockchain: ", <<>>, e>>
ErrCheck(e)    == <<"failed to check existing NFT: ", <<>>, e>>
ErrCreate(e)   == <<"failed to save NFT to database: ", <<>>, e>>
ErrFind(e)     == <<"failed to find NFT: ", <<>>, e>>
ErrUpdate(e)   == <<"failed to update NFT: ", <<>>, e>>
ErrGet(e)      == <<"failed to get NFT: ", <<>>, e>>
ErrList(e)     == <<"failed to get NFTs: ", <<>>, e>>
ErrNotInDB(t)  == <<"NFT with token ID ", FormatUint(t), " not found in database">>
ErrNotFound(t) == <<"NFT with token ID ", FormatUint(t), " not found">>

Ok(n)      == [kind |-> "ok",      nft |-> n,       list |-> {}, msg |-> NoErr]
OkList(l)  == [kind |-> "ok",      nft |-> ZeroNFT, list |-> l,  msg |-> NoErr]
Fail(m)    == [kind |-> "err",     nft |-> ZeroNFT, list |-> {}, msg |-> m]
Invalid    == [kind |-> "invalid", nft |-> ZeroNFT, list |-> {}, msg |-> NoErr]
NoResult   == [kind |-> "none",    nft |-> ZeroNFT, list |-> {}, msg |-> NoErr]

\* no start of the program is being followed
NoFront == [stage |-> "off", uintSize |-> 64, arg |-> "", mode |-> "",
            run |-> "", op |-> "", text |-> <<>>, tokenID |-> <<>>,
            tokenIdBig |-> [neg |-> FALSE, mag |-> <<>>]]

\* ----------------------------------------------------------------- state
VARIABLES
    mode,        \* the -mode flag: "cli" or "api"
    db,          \* the rows of table nfts
    now,         \* the wall clock at its last reading
    calls,       \* requests begun so far
    pc,          \* pc[p]: where request p stands
    op,          \* op[p]: the service method the request runs
    tokenID,     \* tokenID[p]: the uint handed to the service
    tokenIDStr,  \* tokenIDStr[p]: the token id text of the path or prompt
    owner,       \* owner[p]: the owner GetOwnerOf returned
    nft,         \* nft[p]: the local models.NFT (existingNFT / nft)
    result,      \* result[p]: what the service returned
    dbAtCall,    \* dbAtCall[p]: the table when the service was entered
    writes,      \* writes[p]: rows written by this service call
    alone,       \* alone[p]: no other request was in flight during the call
    hist,        \* the last two completed service calls, oldest first
    trace,       \* trace[p]: the chain and table accesses of the call, in order
    choice,      \* the last option typed at the menu of runCLI
    lastRead,    \* the request whose UpdateOwner read the chain last, 0 if none
    front        \* one start of the program followed from argv to the chain call

vars == <<mode, db, now, calls, pc, op, tokenID, tokenIDStr, owner,
          nft, result, dbAtCall, writes, alone, hist, trace, choice, lastRead,
          front>>

\* time.Now(): the wall clock has moved on by some amount, possibly none,
\* since it was last read
Now == now..MaxClock

\* ------------------------------------------------------------- the table
\* db.Where("token_id = ?", t).First(&x): the rows First may load; none is
\* gorm.ErrRecordNotFound
First(d, t) == { r \in d : r.token_id = t }

\* a table without its primary key: every INSERT is let through
KeyTaken_Never(d, n) == FALSE

\* the primary key of nfts: an INSERT of a present token_id is rejected
KeyTaken(d, n) == \E r \in d : r.token_id = n.token_id

\* db.Create(&n) once the key constraint let it through
Create(d, n) == d \cup {n}

\* db.Save(&n): UPDATE nfts SET owner, created_at, updated_at WHERE token_id
Save(d, n) == { r \in d : r.token_id # n.token_id } \cup {n}

\* a Find that loads no row
Find_NoRows(d) == {}

\* db.Find(&nfts): every row, in no particular order
Find(d) == d

\* the table as an earlier run of the program may have left it: empty, or
\* holding a row it inserted at the start of the clock
PersistedTables ==
    { {},
      { [token_id |-> 1, owner |-> "0x1111", created_at |-> 1, updated_at |-> 1] } }

Init ==
    /\ mode \in {"cli", "api"}
    /\ db \in PersistedTables
    /\ now = 1
    /\ calls = 0
    /\ pc = [p \in Procs |-> "idle"]
    /\ op = [p \in Procs |-> "none"]
    /\ tokenID = [p \in Procs |-> 0]
    /\ tokenIDStr = [p \in Procs |-> <<>>]
    /\ owner = [p \in Procs |-> ""]
    /\ nft = [p \in Procs |-> ZeroNFT]
    /\ result = [p \in Procs |-> NoResult]
    /\ dbAtCall = [p \in Procs |-> {}]
    /\ writes = [p \in Procs |-> 0]
    /\ alone = [p \in Procs |-> TRUE]
    /\ hist = <<>>
    /\ trace = [p \in Procs |-> <<>>]
    /\ choice = ""
    /\ lastRead = 0
    /\ front = NoFront

\* ------------------------------------------------------- entering a call
FirstStep(o) ==
    CASE o = "GetAndStoreOwner" -> "gso_chain"
      [] o = "UpdateOwner"      -> "uo_chain"
      [] o = "GetNFTByTokenID"  -> "gn_first"
      [] OTHER                  -> "ga_find"

\* request p is free to start: it never ran, or it has answered
Free(p) == pc[p] \in {"idle", "ret"}

\* the server runs a new request on the first free p (which p serves a
\* request makes no difference to it)
Accept(p) == Free(p) /\ \A q \in Procs : q < p => ~Free(q)

\* a request begins on p: it is alone if no other request is inside the
\* service, and no other request is alone any longer
Begin(p) ==
    /\ dbAtCall' = [dbAtCall EXCEPT ![p] = db]
    /\ writes' = [writes EXCEPT ![p] = 0]
    /\ owner' = [owner EXCEPT ![p] = ""]
    /\ nft' = [nft EXCEPT ![p] = ZeroNFT]
    /\ alone' = [q \in Procs |->
                    IF q = p THEN \A r \in Procs \ {p} : Free(r)
                    ELSE IF pc[q] # "idle" THEN FALSE ELSE alone[q]]
    /\ calls' = calls + 1
    /\ trace' = [trace EXCEPT ![p] = <<>>]
    /\ lastRead' = IF \A r \in Procs \ {p} : Free(r) THEN 0 ELSE lastRead

\* request p calls method o of the service with token id t; s is the token
\* id text the caller holds
Enter(p, o, t, s) ==
    /\ Begin(p)
    /\ pc' = [pc EXCEPT ![p] = FirstStep(o)]
    /\ op' = [op EXCEPT ![p] = o]
    /\ tokenID' = [tokenID EXCEPT ![p] = t]
    /\ tokenIDStr' = [tokenIDStr EXCEPT ![p] = s]
    /\ result' = [result EXCEPT ![p] = NoResult]
    /\ UNCHANGED <<mode, db, now, hist, front>>

\* request p is turned away before the service is called
Reject(p, o, s) ==
    /\ Begin(p)
    /\ pc' = [pc EXCEPT ![p] = "ret"]
    /\ op' = [op EXCEPT ![p] = o]
    /\ tokenID' = [tokenID EXCEPT ![p] = 0]
    /\ tokenIDStr' = [tokenIDStr EXCEPT ![p] = s]
    /\ result' = [result EXCEPT ![p] = Invalid]
    /\ UNCHANGED <<mode, db, now, hist, front>>

\* what the log of completed calls keeps of a call of request p that
\* returned r and left the table d after w writes; of a call that shared
\* the service with another request it keeps only that it was not alone
Summary(p, r, d, w) ==
    IF alone[p]
    THEN [op |-> op[p], tokenID |-> tokenID[p], owner |-> owner[p],
          result |-> r, before |-> dbAtCall[p], after |-> d, writes |-> w,
          alone |-> TRUE]
    ELSE [op |-> "", tokenID |-> 0, owner |-> "", result |-> NoResult,
          before |-> {}, after |-> {}, writes |-> 0, alone |-> FALSE]

LastTwo(h) == IF Len(h) > 2 THEN Tail(h) ELSE h

\* request p has made access k (chain, read, write), which ended as o
Log(p, k, o) == trace' = [trace EXCEPT ![p] = Append(@, <<k, o>>)]

\* the service returns r to request p, the table being d after w writes
Return(p, r, d, w) ==
    /\ result' = [result EXCEPT ![p] = r]
    /\ pc' = [pc EXCEPT ![p] = "ret"]
    /\ db' = d
    /\ writes' = [writes EXCEPT ![p] = w]
    /\ hist' = LastTwo(Append(hist, Summary(p, r, d, w)))

\* --------------------------------------------------------- HTTP handlers
\* POST /api/nft/owner, up to the call of the service
NFTHandler_GetAndStoreOwner(p) ==
    /\ mode = "api"
    /\ Accept(p)
    /\ calls < MaxCalls
    /\ \E body \in JsonBodies :
         IF ShouldBindJSON(body)
         THEN Enter(p, "GetAndStoreOwner", body.token_id, <<>>)
         ELSE Reject(p, "GetAndStoreOwner", <<>>)
    /\ UNCHANGED choice

\* PUT /api/nft/owner, up to the call of the service
NFTHandler_UpdateOwner(p) ==
    /\ mode = "api"
    /\ Accept(p)
    /\ calls < MaxCalls
    /\ \E body \in JsonBodies :
         IF ShouldBindJSON(body)
         THEN Enter(p, "UpdateOwner", body.token_id, <<>>)
         ELSE Reject(p, "UpdateOwner", <<>>)
    /\ UNCHANGED choice

\* GET /api/nft/:token_id, up to the call of the service
NFTHandler_GetNFTByTokenID(p) ==
    /\ mode = "api"
    /\ Accept(p)
    /\ calls < MaxCalls
    /\ \E s \in TokenTexts :
         IF ParseUint(s).ok
         THEN Enter(p, "GetNFTByTokenID", ParseUint(s).val, s)
         ELSE Reject(p, "GetNFTByTokenID", s)
    /\ UNCHANGED choice

\* GET /api/nft, up to the call of the service
NFTHandler_GetAllNFTs(p) ==
    /\ mode = "api"
    /\ Accept(p)
    /\ calls < MaxCalls
    /\ Enter(p, "GetAllNFTs", 0, <<>>)
    /\ UNCHANGED choice

\* handlers that answer every failure of the service with 404
HTTPStatus_ErrIs404(p) ==
    CASE result[p].kind = "invalid" -> 400
      [] result[p].kind = "ok" -> 200
      [] OTHER -> 404

\* the status code the handler of request p answers with
HTTPStatus(p) ==
    CASE result[p].kind = "invalid" -> 400
      [] result[p].kind = "ok" -> 200
      [] result[p].kind = "err" /\ op[p] = "UpdateOwner" ->
            IF result[p].msg =
                 <<"NFT with token ID ", Itoa(tokenID[p]), " not found in database">>
            THEN 404 ELSE 500
      [] result[p].kind = "err" /\ op[p] = "GetNFTByTokenID" ->
            IF result[p].msg =
                 <<"NFT with token ID ", tokenIDStr[p], " not found">>
            THEN 404 ELSE 500
      [] OTHER -> 500

\* dto.NFTResponse of a row: the same four fields
NFTResponse(n) ==
    [token_id |-> n.token_id, owner |-> n.owner, created_at |-> n.created_at,
     updated_at |-> n.updated_at]

\* the body GetAllNFTs answers request p with: one dto.NFTResponse appended
\* per row the service returned, and Count: len(nftResponses)
NFTListResponse(p) ==
    LET nftResponses == { NFTResponse(n) : n \in result[p].list }
    IN  [data |-> nftResponses, count |-> Cardinality(nftResponses)]

\* --------------------------------------------------------- the CLI menu
MenuChoices == {"1", "2", "3", "4", "5", "9"}

MenuOp(c) ==
    CASE c = "1" -> "GetAndStoreOwner"
      [] c = "2" -> "UpdateOwner"
      [] c = "3" -> "GetNFTByTokenID"
      [] OTHER        -> "GetAllNFTs"

\* a menu whose handlers end the program on a token id that does not parse
runCLI_FatalOnInvalid(p) ==
    /\ mode = "cli"
    /\ p = 1
    /\ Free(p)
    /\ calls < MaxCalls
    /\ \E c \in MenuChoices, s \in TokenTexts :
         /\ choice' = c
         /\ CASE c \in {"1", "2", "3"} /\ ParseUint(s).ok ->
                   Enter(p, MenuOp(c), ParseUint(s).val, s)
              [] c = "4" -> Enter(p, "GetAllNFTs", 0, <<>>)
              [] c = "5" \/ (c \in {"1", "2", "3"} /\ ~ParseUint(s).ok) ->
                   /\ pc' = [pc EXCEPT ![p] = "exit"]
                   /\ UNCHANGED <<mode, db, now, calls, op, tokenID, tokenIDStr,
                                  owner, nft, result, dbAtCall, writes, alone,
                                  hist, trace, lastRead, front>>
              [] OTHER -> Reject(p, "none", <<>>)

\* one turn of the loop of runCLI, up to the call of the service; the loop
\* runs on the main goroutine, request 1
runCLI(p) ==
    /\ mode = "cli"
    /\ p = 1
    /\ Free(p)
    /\ calls < MaxCalls
    /\ \E c \in MenuChoices, s \in TokenTexts :
         /\ choice' = c
         /\ CASE c \in {"1", "2", "3"} ->
                   IF ParseUint(s).ok
                   THEN Enter(p, MenuOp(c), ParseUint(s).val, s)
                   ELSE Reject(p, MenuOp(c), s)
              [] c = "4" -> Enter(p, "GetAllNFTs", 0, <<>>)
              [] c = "5" ->
                   /\ pc' = [pc EXCEPT ![p] = "exit"]
                   /\ UNCHANGED <<mode, db, now, calls, op, tokenID, tokenIDStr,
                                  owner, nft, result, dbAtCall, writes, alone,
                                  hist, trace, lastRead, front>>
              [] OTHER -> Reject(p, "none", <<>>)

\* ------------------------------------------- NFTService.GetAndStoreOwner
\* GetOwnerOf with its error dropped: the call goes on with the empty owner
GetAndStoreOwner_GetOwnerOf_IgnoreErr(p) ==
    /\ pc[p] = "gso_chain"
    /\ \/ owner' = [owner EXCEPT ![p] = ""]
       \/ \E o \in Owners : owner' = [owner EXCEPT ![p] = o]
    /\ pc' = [pc EXCEPT ![p] = "gso_first"]
    /\ Log(p, "chain", "ok")
    /\ UNCHANGED <<mode, choice, front, lastRead, db, now, calls, op, tokenID, tokenIDStr, nft,
                   result, dbAtCall, writes, alone, hist>>

\* s.ethClient.GetOwnerOf: the node answers with an owner or the call fails
GetAndStoreOwner_GetOwnerOf(p) ==
    /\ pc[p] = "gso_chain"
    /\ \/ /\ \E e \in ChainErrors : Return(p, Fail(ErrChain(e)), db, writes[p])
          /\ Log(p, "chain", "err")
          /\ UNCHANGED owner
       \/ /\ \E o \in Owners : owner' = [owner EXCEPT ![p] = o]
          /\ pc' = [pc EXCEPT ![p] = "gso_first"]
          /\ Log(p, "chain", "ok")
          /\ UNCHANGED <<db, result, writes, hist>>
    /\ UNCHANGED <<mode, choice, front, lastRead, now, calls, op, tokenID, tokenIDStr, nft, dbAtCall,
                   alone>>

\* the lookup that answers a present row with the fresh owner put into it
GetAndStoreOwner_First_ReturnFresh(p) ==
    /\ pc[p] = "gso_first"
    /\ \/ /\ Return(p, Fail(ErrCheck(StoreFault)), db, writes[p])
          /\ Log(p, "read", "fault")
          /\ UNCHANGED nft
       \/ \E r \in First(db, tokenID[p]) :
            /\ Log(p, "read", "found")
            /\ nft' = [nft EXCEPT ![p] = [r EXCEPT !.owner = owner[p]]]
            /\ Return(p, Ok([r EXCEPT !.owner = owner[p]]), db, writes[p])
       \/ /\ First(db, tokenID[p]) = {}
          /\ Log(p, "read", "notfound")
          /\ pc' = [pc EXCEPT ![p] = "gso_created_at"]
          /\ UNCHANGED <<db, nft, result, writes, hist>>
    /\ UNCHANGED <<mode, choice, front, lastRead, now, calls, op, tokenID, tokenIDStr, owner,
                   dbAtCall, alone>>

\* the lookup turned into an upsert: a present row takes the fresh owner
GetAndStoreOwner_First_Upsert(p) ==
    /\ pc[p] = "gso_first"
    /\ \/ /\ Return(p, Fail(ErrCheck(StoreFault)), db, writes[p])
          /\ Log(p, "read", "fault")
          /\ UNCHANGED nft
       \/ \E r \in First(db, tokenID[p]) :
            /\ Log(p, "read", "found")
            /\ nft' = [nft EXCEPT ![p] = [r EXCEPT !.owner = owner[p]]]
            /\ Return(p, Ok([r EXCEPT !.owner = owner[p]]),
                      Save(db, [r EXCEPT !.owner = owner[p]]), writes[p] + 1)
       \/ /\ First(db, tokenID[p]) = {}
          /\ Log(p, "read", "notfound")
          /\ pc' = [pc EXCEPT ![p] = "gso_created_at"]
          /\ UNCHANGED <<db, nft, result, writes, hist>>
    /\ UNCHANGED <<mode, choice, front, lastRead, now, calls, op, tokenID, tokenIDStr, owner,
                   dbAtCall, alone>>

\* db.Where("token_id = ?", tokenID).First(&existingNFT) and the two tests
\* of err that follow it
GetAndStoreOwner_First(p) ==
    /\ pc[p] = "gso_first"
    /\ \/ /\ Return(p, Fail(ErrCheck(StoreFault)), db, writes[p])
          /\ Log(p, "read", "fault")
          /\ UNCHANGED nft
       \/ \E r \in First(db, tokenID[p]) :
            /\ Log(p, "read", "found")
            /\ nft' = [nft EXCEPT ![p] = r]
            /\ Return(p, Ok(r), db, writes[p])
       \/ /\ First(db, tokenID[p]) = {}
          /\ Log(p, "read", "notfound")
          /\ pc' = [pc EXCEPT ![p] = "gso_created_at"]
          /\ UNCHANGED <<db, nft, result, writes, hist>>
    /\ UNCHANGED <<mode, choice, front, lastRead, now, calls, op, tokenID, tokenIDStr, owner,
                   dbAtCall, alone>>

\* nft := models.NFT{TokenID: tokenID, Owner: owner, CreatedAt: time.Now(),
GetAndStoreOwner_CreatedAt(p) ==
    /\ pc[p] = "gso_created_at"
    /\ \E t \in Now :
         /\ now' = t
         /\ nft' = [nft EXCEPT ![p] =
                      [token_id |-> tokenID[p], owner |-> owner[p],
                       created_at |-> t, updated_at |-> 0]]
    /\ pc' = [pc EXCEPT ![p] = "gso_updated_at"]
    /\ UNCHANGED <<mode, choice, front, lastRead, trace, db, calls, op, tokenID, tokenIDStr, owner, result,
                   dbAtCall, writes, alone, hist>>

\* ... UpdatedAt: time.Now()}
GetAndStoreOwner_UpdatedAt(p) ==
    /\ pc[p] = "gso_updated_at"
    /\ \E t \in Now :
         /\ now' = t
         /\ nft' = [nft EXCEPT ![p].updated_at = t]
    /\ pc' = [pc EXCEPT ![p] = "gso_create"]
    /\ UNCHANGED <<mode, choice, front, lastRead, trace, db, calls, op, tokenID, tokenIDStr, owner, result,
                   dbAtCall, writes, alone, hist>>

\* the insert written as INSERT ... ON CONFLICT DO UPDATE
GetAndStoreOwner_Create_OnConflictUpdate(p) ==
    /\ pc[p] = "gso_create"
    /\ \/ /\ Return(p, Fail(ErrCreate(StoreFault)), db, writes[p])
          /\ Log(p, "write", "fault")
       \/ /\ Return(p, Ok(nft[p]), Save(db, nft[p]), writes[p] + 1)
          /\ Log(p, "write", "ok")
    /\ UNCHANGED <<mode, choice, front, lastRead, now, calls, op, tokenID, tokenIDStr, owner, nft,
                   dbAtCall, alone>>

\* db.Create(&nft) and the return that follows it
GetAndStoreOwner_Create(p) ==
    /\ pc[p] = "gso_create"
    /\ \/ /\ Return(p, Fail(ErrCreate(StoreFault)), db, writes[p])
          /\ Log(p, "write", "fault")
       \/ /\ KeyTaken(db, nft[p])
          /\ Return(p, Fail(ErrCreate(DuplicateKey)), db, writes[p])
          /\ Log(p, "write", "conflict")
       \/ /\ ~KeyTaken(db, nft[p])
          /\ Return(p, Ok(nft[p]), Create(db, nft[p]), writes[p] + 1)
          /\ Log(p, "write", "ok")
    /\ UNCHANGED <<mode, choice, front, lastRead, now, calls, op, tokenID, tokenIDStr, owner, nft,
                   dbAtCall, alone>>

\* ------------------------------------------------ NFTService.UpdateOwner
\* GetOwnerOf with its error dropped: the update goes on with the empty owner
UpdateOwner_GetOwnerOf_IgnoreErr(p) ==
    /\ pc[p] = "uo_chain"
    /\ \/ owner' = [owner EXCEPT ![p] = ""]
       \/ \E o \in Owners : owner' = [owner EXCEPT ![p] = o]
    /\ pc' = [pc EXCEPT ![p] = "uo_first"]
    /\ Log(p, "chain", "ok")
    /\ UNCHANGED <<mode, choice, front, lastRead, db, now, calls, op, tokenID, tokenIDStr,
                   nft, result, dbAtCall, writes, alone, hist>>

\* GetOwnerOf called again after it failed
UpdateOwner_GetOwnerOf_Retry(p) ==
    /\ pc[p] = "uo_chain"
    /\ \/ /\ Log(p, "chain", "err")
          /\ UNCHANGED <<db, result, writes, hist, owner, pc>>
       \/ /\ \E o \in Owners : owner' = [owner EXCEPT ![p] = o]
          /\ pc' = [pc EXCEPT ![p] = "uo_first"]
          /\ Log(p, "chain", "ok")
          /\ UNCHANGED <<db, result, writes, hist>>
    /\ UNCHANGED <<mode, choice, front, lastRead, now, calls, op, tokenID, tokenIDStr, nft, dbAtCall,
                   alone>>

\* s.ethClient.GetOwnerOf: the node answers with an owner or the call fails
UpdateOwner_GetOwnerOf(p) ==
    /\ pc[p] = "uo_chain"
    /\ \/ /\ \E e \in ChainErrors : Return(p, Fail(ErrChain(e)), db, writes[p])
          /\ Log(p, "chain", "err")
          /\ UNCHANGED <<owner, lastRead>>
       \/ /\ \E o \in Owners : owner' = [owner EXCEPT ![p] = o]
          /\ pc' = [pc EXCEPT ![p] = "uo_first"]
          /\ Log(p, "chain", "ok")
          /\ lastRead' = p
          /\ UNCHANGED <<db, result, writes, hist>>
    /\ UNCHANGED <<mode, choice, front, now, calls, op, tokenID, tokenIDStr, nft, dbAtCall,
                   alone>>

\* the lookup of the update turned into create-if-absent
UpdateOwner_First_CreateIfAbsent(p) ==
    /\ pc[p] = "uo_first"
    /\ \/ /\ Return(p, Fail(ErrFind(StoreFault)), db, writes[p])
          /\ Log(p, "read", "fault")
          /\ UNCHANGED nft
       \/ /\ First(db, tokenID[p]) = {}
          /\ Log(p, "read", "notfound")
          /\ nft' = [nft EXCEPT ![p] = [ZeroNFT EXCEPT !.token_id = tokenID[p],
                                                       !.created_at = now]]
          /\ pc' = [pc EXCEPT ![p] = "uo_set"]
          /\ UNCHANGED <<db, result, writes, hist>>
       \/ \E r \in First(db, tokenID[p]) :
            /\ Log(p, "read", "found")
            /\ nft' = [nft EXCEPT ![p] = r]
            /\ pc' = [pc EXCEPT ![p] = "uo_set"]
            /\ UNCHANGED <<db, result, writes, hist>>
    /\ UNCHANGED <<mode, choice, front, lastRead, now, calls, op, tokenID, tokenIDStr, owner,
                   dbAtCall, alone>>

\* db.Where("token_id = ?", tokenID).First(&nft) and the test of err
UpdateOwner_First(p) ==
    /\ pc[p] = "uo_first"
    /\ \/ /\ Return(p, Fail(ErrFind(StoreFault)), db, writes[p])
          /\ Log(p, "read", "fault")
          /\ UNCHANGED nft
       \/ /\ First(db, tokenID[p]) = {}
          /\ Log(p, "read", "notfound")
          /\ Return(p, Fail(ErrNotInDB(tokenID[p])), db, writes[p])
          /\ UNCHANGED nft
       \/ \E r \in First(db, tokenID[p]) :
            /\ Log(p, "read", "found")
            /\ nft' = [nft EXCEPT ![p] = r]
            /\ pc' = [pc EXCEPT ![p] = "uo_set"]
            /\ UNCHANGED <<db, result, writes, hist>>
    /\ UNCHANGED <<mode, choice, front, lastRead, now, calls, op, tokenID, tokenIDStr, owner,
                   dbAtCall, alone>>

\* the update that forgets nft.Owner = owner
UpdateOwner_Set_KeepOwner(p) ==
    /\ pc[p] = "uo_set"
    /\ \E t \in Now :
         /\ now' = t
         /\ nft' = [nft EXCEPT ![p].updated_at = t]
    /\ pc' = [pc EXCEPT ![p] = "uo_save"]
    /\ UNCHANGED <<mode, choice, front, lastRead, trace, db, calls, op, tokenID, tokenIDStr, owner, result,
                   dbAtCall, writes, alone, hist>>

\* the update that stamps CreatedAt instead of UpdatedAt
UpdateOwner_Set_StampCreated(p) ==
    /\ pc[p] = "uo_set"
    /\ \E t \in Now :
         /\ now' = t
         /\ nft' = [nft EXCEPT ![p].owner = owner[p], ![p].created_at = t]
    /\ pc' = [pc EXCEPT ![p] = "uo_save"]
    /\ UNCHANGED <<mode, choice, front, lastRead, trace, db, calls, op, tokenID, tokenIDStr, owner, result,
                   dbAtCall, writes, alone, hist>>

\* nft.Owner = owner; nft.UpdatedAt = time.Now()
UpdateOwner_Set(p) ==
    /\ pc[p] = "uo_set"
    /\ \E t \in Now :
         /\ now' = t
         /\ nft' = [nft EXCEPT ![p].owner = owner[p], ![p].updated_at = t]
    /\ pc' = [pc EXCEPT ![p] = "uo_save"]
    /\ UNCHANGED <<mode, choice, front, lastRead, trace, db, calls, op, tokenID, tokenIDStr, owner, result,
                   dbAtCall, writes, alone, hist>>

\* a Save whose error is not looked at: the update reports success
UpdateOwner_Save_SwallowErr(p) ==
    /\ pc[p] = "uo_save"
    /\ \/ /\ Return(p, Ok(nft[p]), db, writes[p])
          /\ Log(p, "write", "fault")
       \/ /\ Return(p, Ok(nft[p]), Save(db, nft[p]), writes[p] + 1)
          /\ Log(p, "write", "ok")
    /\ UNCHANGED <<mode, choice, front, lastRead, now, calls, op, tokenID, tokenIDStr, owner, nft,
                   dbAtCall, alone>>

\* db.Save(&nft) and the return that follows it
UpdateOwner_Save(p) ==
    /\ pc[p] = "uo_save"
    /\ \/ /\ Return(p, Fail(ErrUpdate(StoreFault)), db, writes[p])
          /\ Log(p, "write", "fault")
       \/ /\ Return(p, Ok(nft[p]), Save(db, nft[p]), writes[p] + 1)
          /\ Log(p, "write", "ok")
    /\ UNCHANGED <<mode, choice, front, lastRead, now, calls, op, tokenID, tokenIDStr, owner, nft,
                   dbAtCall, alone>>

\* -------------------------------------------- NFTService.GetNFTByTokenID
\* the lookup without its Where clause: First loads whatever row comes first
GetNFTByTokenID_First_NoWhere(p) ==
    /\ pc[p] = "gn_first"
    /\ \/ /\ Return(p, Fail(ErrGet(StoreFault)), db, writes[p])
          /\ Log(p, "read", "fault")
          /\ UNCHANGED nft
       \/ /\ db = {}
          /\ Log(p, "read", "notfound")
          /\ Return(p, Fail(ErrNotFound(tokenID[p])), db, writes[p])
          /\ UNCHANGED nft
       \/ \E r \in db :
            /\ Log(p, "read", "found")
            /\ nft' = [nft EXCEPT ![p] = r]
            /\ Return(p, Ok(r), db, writes[p])
    /\ UNCHANGED <<mode, choice, front, lastRead, now, calls, op, tokenID, tokenIDStr, owner,
                   dbAtCall, alone>>

\* db.Where("token_id = ?", tokenID).First(&nft) and the two tests of err
GetNFTByTokenID_First(p) ==
    /\ pc[p] = "gn_first"
    /\ \/ /\ Return(p, Fail(ErrGet(StoreFault)), db, writes[p])
          /\ Log(p, "read", "fault")
          /\ UNCHANGED nft
       \/ /\ First(db, tokenID[p]) = {}
          /\ Log(p, "read", "notfound")
          /\ Return(p, Fail(ErrNotFound(tokenID[p])), db, writes[p])
          /\ UNCHANGED nft
       \/ \E r \in First(db, tokenID[p]) :
            /\ Log(p, "read", "found")
            /\ nft' = [nft EXCEPT ![p] = r]
            /\ Return(p, Ok(r), db, writes[p])
    /\ UNCHANGED <<mode, choice, front, lastRead, now, calls, op, tokenID, tokenIDStr, owner,
                   dbAtCall, alone>>

\* ------------------------------------------------- NFTService.GetAllNFTs
GetAllNFTs_Find(p) ==
    /\ pc[p] = "ga_find"
    /\ \/ /\ Return(p, Fail(ErrList(StoreFault)), db, writes[p])
          /\ Log(p, "read", "fault")
       \/ /\ Return(p, OkList(Find(db)), db, writes[p])
          /\ Log(p, "read", "found")
    /\ UNCHANGED <<mode, choice, front, lastRead, now, calls, op, tokenID, tokenIDStr, owner, nft,
                   dbAtCall, alone>>

Next ==
    \/ \E p \in Procs : NFTHandler_GetAndStoreOwner(p)
    \/ \E p \in Procs : NFTHandler_UpdateOwner(p)
    \/ \E p \in Procs : NFTHandler_GetNFTByTokenID(p)
    \/ \E p \in Procs : NFTHandler_GetAllNFTs(p)
    \/ \E p \in Procs : runCLI(p)
    \/ \E p \in Procs : GetAndStoreOwner_GetOwnerOf(p)
    \/ \E p \in Procs : GetAndStoreOwner_First(p)
    \/ \E p \in Procs : GetAndStoreOwner_CreatedAt(p)
    \/ \E p \in Procs : GetAndStoreOwner_UpdatedAt(p)
    \/ \E p \in Procs : GetAndStoreOwner_Create(p)
    \/ \E p \in Procs : UpdateOwner_GetOwnerOf(p)
    \/ \E p \in Procs : UpdateOwner_First(p)
    \/ \E p \in Procs : UpdateOwner_Set(p)
    \/ \E p \in Procs : UpdateOwner_Save(p)
    \/ \E p \in Procs : GetNFTByTokenID_First(p)
    \/ \E p \in Procs : GetAllNFTs_Find(p)

Spec == Init /\ [][Next]_vars

TypeOK ==
    /\ mode \in {"cli", "api"}
    /\ now \in 1..MaxClock
    /\ calls \in 0..MaxCalls
    /\ \A r \in db : r.owner \in Owners

\* --------------------------------------- from argv to the chain call
\* what the front end leaves alone: the requests and the table
coreVars == <<mode, db, now, calls, pc, op, tokenID, tokenIDStr, owner,
              nft, result, dbAtCall, writes, alone, hist, trace, choice,
              lastRead>>

\* the value of -mode on the command line; "" is a command line without it
ModeArgs == {"", "cli", "api", "batch"}

\* strconv.IntSize of the build: the width of uint
UintSizes == {32, 64}

\* token id texts around the edges of 32 and 64 bits
FrontTexts ==
    { <<>>, <<"x">>, <<"-", "1">>, <<"0">>, <<"1">>, <<"0", "1">>,
      MaxUint32,
      Text(<<4, 2, 9, 4, 9, 6, 7, 2, 9, 6>>),
      MaxInt64,
      Text(<<9, 2, 2, 3, 3, 7, 2, 0, 3, 6, 8, 5, 4, 7, 7, 5, 8, 0, 8>>),
      MaxUint64,
      TwoTo64 }

InitEntry ==
    /\ mode = "cli"
    /\ db = {}
    /\ now = 1
    /\ calls = 0
    /\ pc = [p \in Procs |-> "idle"]
    /\ op = [p \in Procs |-> "none"]
    /\ tokenID = [p \in Procs |-> 0]
    /\ tokenIDStr = [p \in Procs |-> <<>>]
    /\ owner = [p \in Procs |-> ""]
    /\ nft = [p \in Procs |-> ZeroNFT]
    /\ result = [p \in Procs |-> NoResult]
    /\ dbAtCall = [p \in Procs |-> {}]
    /\ writes = [p \in Procs |-> 0]
    /\ alone = [p \in Procs |-> TRUE]
    /\ hist = <<>>
    /\ trace = [p \in Procs |-> <<>>]
    /\ choice = ""
    /\ lastRead = 0
    /\ \E a \in ModeArgs, w \in UintSizes :
         front = [NoFront EXCEPT !.stage = "argv", !.arg = a, !.uintSize = w]

\* mode = flag.String("mode", "api", ...); flag.Parse()
main_ParseFlags ==
    /\ front.stage = "argv"
    /\ front' = [front EXCEPT !.stage = "flags",
                              !.mode = IF front.arg = "" THEN "api" ELSE front.arg]
    /\ UNCHANGED coreVars

\* switch *mode: the function main goes on with
Switch(m) ==
    CASE m = "cli" -> "runCLI"
      [] m = "api" -> "runAPIServer"
      [] OTHER     -> "log.Fatalf"

\* the rest of main: database.InitDB and ethereum.NewEthereumClient, either
\* of which may end the program, then switch *mode
main_Run ==
    /\ front.stage = "flags"
    /\ \E f \in {"log.Fatalf", Switch(front.mode)} :
         front' = [front EXCEPT !.stage = f, !.run = f]
    /\ UNCHANGED coreVars

\* the front end hands token id t to method o of the service
FrontCall(o, s, t) ==
    front' = [front EXCEPT !.stage = "service", !.op = o, !.text = s,
                           !.tokenID = t]

\* the front end turns the token id text s away
FrontReject(o, s) ==
    front' = [front EXCEPT !.stage = "rejected", !.op = o, !.text = s]

\* options 1 to 3 of the menu: strconv.ParseUint(tokenIDStr, 10, 32) and
\* the call of the service with uint(tokenID)
handleTokenID ==
    /\ front.stage = "runCLI"
    /\ \E c \in {"1", "2", "3"}, s \in FrontTexts :
         IF ParseUintBits(s, 32).ok
         THEN FrontCall(MenuOp(c), s, ParseUintBits(s, 32).val)
         ELSE FrontReject(MenuOp(c), s)
    /\ UNCHANGED coreVars

\* GET /api/nft/:token_id: strconv.ParseUint(tokenIDStr, 10, 32) and the
\* call of the service with uint(tokenID)
NFTHandler_ParseUint ==
    /\ front.stage = "runAPIServer"
    /\ \E s \in FrontTexts :
         IF ParseUintBits(s, 32).ok
         THEN FrontCall("GetNFTByTokenID", s, ParseUintBits(s, 32).val)
         ELSE FrontReject("GetNFTByTokenID", s)
    /\ UNCHANGED coreVars

\* POST and PUT /api/nft/owner: c.ShouldBindJSON(&req) fills req.TokenID,
\* a uint, and the service is called with it
NFTHandler_ShouldBindJSON ==
    /\ front.stage = "runAPIServer"
    /\ \E o \in {"GetAndStoreOwner", "UpdateOwner"}, s \in FrontTexts :
         IF BindUint(s, front.uintSize).ok
         THEN FrontCall(o, s, BindUint(s, front.uintSize).val)
         ELSE FrontReject(o, s)
    /\ UNCHANGED coreVars

\* EthereumClient.GetOwnerOf: tokenIdBig := big.NewInt(int64(tokenID))
GetOwnerOf_NewInt ==
    /\ front.stage = "service"
    /\ front.op \in {"GetAndStoreOwner", "UpdateOwner"}
    /\ front' = [front EXCEPT !.stage = "chain",
                              !.tokenIdBig = Int64(front.tokenID)]
    /\ UNCHANGED coreVars

NextEntry ==
    \/ main_ParseFlags
    \/ main_Run
    \/ handleTokenID
    \/ NFTHandler_ParseUint
    \/ NFTHandler_ShouldBindJSON
    \/ GetOwnerOf_NewInt

SpecEntry == InitEntry /\ [][NextEntry]_vars

\* ================================================================ claims
\* request p has returned from method o of the service
Returned(p, o) == pc[p] = "ret" /\ op[p] = o /\ result[p].kind # "invalid"

\* the service of request p met a fault of the database driver
StoreFailed(p) == result[p].kind = "err" /\ result[p].msg[3] = StoreFault

\* ---------------------------------------------------------------- C1
\* C1 (first write wins): a successful GetAndStoreOwner on a token that had
\* a stored row when the call began writes nothing, whatever owner the chain
\* reported; run without interleaving it returns exactly that stored row and
\* the table is the same as before the call.
C1_FirstWriteWins ==
    \A p \in Procs :
        ( /\ Returned(p, "GetAndStoreOwner")
          /\ result[p].kind = "ok"
          /\ First(dbAtCall[p], tokenID[p]) # {} )
        => /\ writes[p] = 0
           /\ result[p].nft.token_id = tokenID[p]
           /\ alone[p] => /\ result[p].nft \in First(dbAtCall[p], tokenID[p])
                          /\ db = dbAtCall[p]

\* a call on a row owned by B whose chain read reported A # B has returned
C1_Witness ==
    \E p \in Procs :
        /\ Returned(p, "GetAndStoreOwner")
        /\ result[p].kind = "ok"
        /\ alone[p]
        /\ \E r \in First(dbAtCall[p], tokenID[p]) :
              r.owner # owner[p] /\ result[p].nft.owner = r.owner

\* ---------------------------------------------------------------- C2
\* the last two completed calls are two GetAndStoreOwner calls on one token,
\* run one after the other with no request in between, both successful,
\* the chain reporting the same owner, the token absent before the first
SeededTwice ==
    /\ Len(hist) = 2
    /\ hist[1].op = "GetAndStoreOwner"
    /\ hist[2].op = "GetAndStoreOwner"
    /\ hist[1].alone
    /\ hist[2].alone
    /\ hist[1].result.kind = "ok"
    /\ hist[2].result.kind = "ok"
    /\ hist[1].tokenID = hist[2].tokenID
    /\ hist[1].owner = hist[2].owner
    /\ First(hist[1].before, hist[1].tokenID) = {}

\* C2 (idempotent seeding): two sequential GetAndStoreOwner calls on an
\* absent token with the same chain owner return the same record, leave the
\* same table after the first and after the second call, holding that
\* record, and write the table exactly once between them.
C2_IdempotentSeeding ==
    SeededTwice
    => /\ hist[2].result.nft = hist[1].result.nft
       /\ hist[2].after = hist[1].after
       /\ First(hist[2].after, hist[2].tokenID) = {hist[2].result.nft}
       /\ hist[1].writes + hist[2].writes = 1

C2_Witness ==
    /\ SeededTwice
    /\ hist[1].writes = 1
    /\ hist[2].result.nft.owner = hist[2].owner

\* ---------------------------------------------------------------- C3
\* C3 (update requires existence): an UpdateOwner that answers "not found in
\* database" has written nothing; run without interleaving on a token with
\* no stored row, with the chain read and the lookup succeeding, it answers
\* exactly that error for its token and the table still has no row for it.
C3_UpdateRequiresExistence ==
    \A p \in Procs :
        /\ ( Returned(p, "UpdateOwner") /\ result[p].msg[3] = " not found in database" )
           => writes[p] = 0
        /\ ( /\ Returned(p, "UpdateOwner")
             /\ alone[p]
             /\ owner[p] # ""
             /\ ~StoreFailed(p)
             /\ First(dbAtCall[p], tokenID[p]) = {} )
           => /\ result[p] = Fail(ErrNotInDB(tokenID[p]))
              /\ writes[p] = 0
              /\ First(db, tokenID[p]) = {}
              /\ db = dbAtCall[p]

C3_Witness ==
    \E p \in Procs :
        /\ Returned(p, "UpdateOwner")
        /\ alone[p]
        /\ owner[p] # ""
        /\ First(dbAtCall[p], tokenID[p]) = {}
        /\ result[p] = Fail(ErrNotInDB(tokenID[p]))

\* ---------------------------------------------------------------- C4
\* C4 (update always refreshes): a successful UpdateOwner has written once;
\* the record it returns carries the owner its own chain read returned, the
\* created_at of the row stored when the call began and an updated_at not
\* before that row's; run without interleaving, the returned record is the
\* stored row.
C4_UpdateRefreshes ==
    \A p \in Procs :
        ( Returned(p, "UpdateOwner") /\ result[p].kind = "ok" )
        => /\ writes[p] = 1
           /\ result[p].nft.owner = owner[p]
           /\ result[p].nft.token_id = tokenID[p]
           /\ \A r \in First(dbAtCall[p], tokenID[p]) :
                 /\ result[p].nft.created_at = r.created_at
                 /\ result[p].nft.updated_at >= r.updated_at
           /\ alone[p] => First(db, tokenID[p]) = {result[p].nft}

\* an update that changed the owner and advanced updated_at has returned
C4_Witness ==
    \E p \in Procs :
        /\ Returned(p, "UpdateOwner")
        /\ result[p].kind = "ok"
        /\ alone[p]
        /\ \E r \in First(dbAtCall[p], tokenID[p]) :
              /\ r.owner # owner[p]
              /\ result[p].nft.updated_at > r.updated_at

\* ---------------------------------------------------------------- C5
\* request p's GetOwnerOf failed: the service returned without an owner
ChainFailed(p) ==
    /\ pc[p] = "ret"
    /\ op[p] \in {"GetAndStoreOwner", "UpdateOwner"}
    /\ result[p].kind # "invalid"
    /\ owner[p] = ""

\* C5 (chain failure propagation): when GetOwnerOf fails, GetAndStoreOwner
\* and UpdateOwner return the wrapped chain error and write nothing; run
\* without interleaving, the table is the same as before the call.
C5_ChainFailurePropagates ==
    \A p \in Procs :
        ChainFailed(p)
        => /\ result[p].kind = "err"
           /\ \E e \in ChainErrors : result[p].msg = ErrChain(e)
           /\ writes[p] = 0
           /\ alone[p] => db = dbAtCall[p]

\* a chain failure has been returned over a table that already holds a row
C5_Witness ==
    \E p \in Procs :
        ChainFailed(p) /\ alone[p] /\ dbAtCall[p] # {} /\ op[p] = "UpdateOwner"

\* ---------------------------------------------------------------- C6
\* request p found no row, went on to db.Create and the driver did not fail
ReachedCreate(p) ==
    /\ Returned(p, "GetAndStoreOwner")
    /\ ~StoreFailed(p)
    /\ \/ writes[p] = 1
       \/ result[p].kind = "err" /\ result[p].msg[1] = ErrCreate("")[1]

\* p and q are two calls on one token that both passed the not-found check
Raced(p, q) ==
    /\ p # q
    /\ ReachedCreate(p)
    /\ ReachedCreate(q)
    /\ tokenID[p] = tokenID[q]

\* C6 (seeding race): of two GetAndStoreOwner calls that both passed the
\* not-found check for one token at most one succeeds; the one whose insert
\* is refused returns the duplicate-key failure, has written nothing, and a
\* row for the token is stored, whose created_at is the winner's. When the
\* two are the only requests of the run, exactly one succeeded and the
\* stored row is the winner's record.
C6_SeedingRace ==
    \A p, q \in Procs :
        Raced(p, q)
        => /\ ~(result[p].kind = "ok" /\ result[q].kind = "ok")
           /\ result[q].kind # "ok"
                => /\ result[q] = Fail(ErrCreate(DuplicateKey))
                   /\ writes[q] = 0
                   /\ Cardinality(First(db, tokenID[q])) = 1
           /\ (result[p].kind = "ok" /\ result[q].kind # "ok")
                => \A r \in First(db, tokenID[p]) :
                      r.created_at = result[p].nft.created_at
           /\ calls = 2
                => /\ result[p].kind = "ok" \/ result[q].kind = "ok"
                   /\ result[p].kind = "ok"
                        => First(db, tokenID[p]) = {result[p].nft}

\* the race has been run: a winner and a loser with different records
C6_Witness ==
    \E p, q \in Procs :
        /\ Raced(p, q)
        /\ calls = 2
        /\ result[p].kind = "ok"
        /\ result[q].kind = "err"
        /\ nft[q] # nft[p]

\* ---------------------------------------------------------------- C7
\* the service of request p answered that the token has no stored row
RecordNotFound(p) ==
    /\ pc[p] = "ret"
    /\ result[p].kind = "err"
    /\ \/ op[p] = "GetNFTByTokenID" /\ result[p].msg = ErrNotFound(tokenID[p])
       \/ op[p] = "UpdateOwner" /\ result[p].msg = ErrNotInDB(tokenID[p])

\* C7 (not-found status mapping): every request of GET /api/nft/{token_id}
\* and PUT /api/nft/owner that passed validation and whose token has no
\* stored row is answered 404.
C7_NotFoundIs404 ==
    \A p \in Procs :
        (mode = "api" /\ RecordNotFound(p)) => HTTPStatus(p) = 404

\* ---------------------------------------------------------------- C8
\* C8 (creation timestamps): a record inserted by GetAndStoreOwner has
\* created_at equal to updated_at, as returned and as stored.
C8_CreatedEqualsUpdated ==
    \A p \in Procs :
        ( /\ Returned(p, "GetAndStoreOwner")
          /\ result[p].kind = "ok"
          /\ writes[p] = 1 )
        => /\ result[p].nft.created_at = result[p].nft.updated_at
           /\ alone[p] => \A r \in First(db, tokenID[p]) :
                             r.created_at = r.updated_at

\* ---------------------------------------------------------------- C9
\* C9 (key uniqueness): the table never holds two rows with one token_id.
C9_KeyUnique ==
    \A r1, r2 \in db : r1.token_id = r2.token_id => r1 = r2

\* an insert of a present token_id has been attempted and refused
C9_Witness ==
    \E p \in Procs :
        /\ Returned(p, "GetAndStoreOwner")
        /\ result[p] = Fail(ErrCreate(DuplicateKey))
        /\ First(db, tokenID[p]) # {}
        /\ nft[p] \notin db

\* --------------------------------------------------------------- C10
\* C10 (timestamp order): every stored row has created_at <= updated_at,
\* the clock never running backwards.
C10_CreatedBeforeUpdated ==
    \A r \in db : r.created_at <= r.updated_at

\* an update interleaved with another request has stored a later updated_at
C10_Witness ==
    \E p \in Procs :
        /\ Returned(p, "UpdateOwner")
        /\ result[p].kind = "ok"
        /\ ~alone[p]
        /\ result[p].nft \in db
        /\ result[p].nft.created_at < result[p].nft.updated_at

\* --------------------------------------------------------------- C11
\* request p returns from method o in this step
Returns(p, o) == op[p] = o /\ ~Free(p) /\ pc'[p] = "ret"

\* C11 (two-state lifecycle): in every step a token that has a stored row
\* still has one afterwards; a token gets its row only in a step in which a
\* GetAndStoreOwner on that token returns; the row of a token changes only
\* in a step in which an UpdateOwner on that token returns.
C11_Lifecycle ==
    [][ \A t \in { r.token_id : r \in db \cup db' } :
          /\ First(db, t) # {} => First(db', t) # {}
          /\ (First(db, t) = {} /\ First(db', t) # {})
             => \E p \in Procs : Returns(p, "GetAndStoreOwner") /\ tokenID[p] = t
          /\ (First(db, t) # {} /\ First(db', t) # First(db, t))
             => \E p \in Procs : Returns(p, "UpdateOwner") /\ tokenID[p] = t
      ]_vars

\* a token was given its row by GetAndStoreOwner and the row was then
\* given another owner by UpdateOwner
C11_Witness ==
    /\ Len(hist) = 2
    /\ hist[1].op = "GetAndStoreOwner"
    /\ hist[1].writes = 1
    /\ hist[2].op = "UpdateOwner"
    /\ hist[2].writes = 1
    /\ hist[2].tokenID = hist[1].tokenID
    /\ hist[2].result.nft.owner # hist[1].result.nft.owner
    /\ hist[2].result.nft \in db

\* --------------------------------------------------------------- C12
\* C12 (point read): GetNFTByTokenID writes nothing and a record it returns
\* carries the token asked for; run without interleaving and without a
\* fault of the driver it leaves the table as it was, returns the one
\* stored row of the token, and fails with "NFT with token ID <t> not
\* found" when the token has none.
C12_PointRead ==
    \A p \in Procs :
        Returned(p, "GetNFTByTokenID") =>
            /\ writes[p] = 0
            /\ \A i \in 1..Len(trace[p]) : trace[p][i][1] = "read"
            /\ result[p].kind = "ok" => result[p].nft.token_id = tokenID[p]
            /\ alone[p] => db = dbAtCall[p]
            /\ (alone[p] /\ ~StoreFailed(p)) =>
                  IF First(db, tokenID[p]) = {}
                  THEN result[p] = Fail(ErrNotFound(tokenID[p]))
                  ELSE /\ result[p].kind = "ok"
                       /\ First(db, tokenID[p]) = {result[p].nft}

\* a read that follows an update returns the row with the updated owner
C12_Witness ==
    \E p \in Procs :
        /\ Returned(p, "GetNFTByTokenID")
        /\ alone[p]
        /\ result[p].kind = "ok"
        /\ Len(hist) = 2
        /\ hist[1].op = "UpdateOwner"
        /\ hist[1].writes = 1
        /\ hist[1].result.nft = result[p].nft
        /\ hist[1].before # hist[1].after

\* --------------------------------------------------------------- C13
\* C13 (listing): GetAllNFTs writes nothing and, unless the driver faults,
\* succeeds; run without interleaving it returns exactly the rows of the
\* table, none for an empty table; GET /api/nft then answers 200 with a
\* count equal to the number of rows of the table.
C13_Listing ==
    \A p \in Procs :
        Returned(p, "GetAllNFTs") =>
            /\ writes[p] = 0
            /\ ~StoreFailed(p) => result[p].kind = "ok"
            /\ (alone[p] /\ ~StoreFailed(p)) =>
                  /\ db = dbAtCall[p]
                  /\ result[p].list = db
                  /\ mode = "api" =>
                        /\ HTTPStatus(p) = 200
                        /\ NFTListResponse(p).count = Cardinality(db)
                        /\ NFTListResponse(p).data = db

\* the listing of an empty table has succeeded with no rows and count 0
C13_Witness ==
    \E p \in Procs :
        /\ mode = "api"
        /\ Returned(p, "GetAllNFTs")
        /\ alone[p]
        /\ db = {}
        /\ result[p] = OkList({})
        /\ HTTPStatus(p) = 200
        /\ NFTListResponse(p).count = 0

\* the listing of a table with a row has returned that row with count 1
C13_WitnessRows ==
    \E p \in Procs :
        /\ mode = "api"
        /\ Returned(p, "GetAllNFTs")
        /\ alone[p]
        /\ Cardinality(db) = 1
        /\ result[p].list = db
        /\ NFTListResponse(p).count = 1

\* --------------------------------------------------------------- C14
\* C14 (validation and generic-failure mapping): in api mode a request
\* turned away by validation is answered 400 and has made no chain call, no
\* table access and no write; a request whose service call failed with
\* anything but "not found" (chain failure, driver fault, insert conflict)
\* is answered 500, whichever of the four endpoints it came through.
C14_StatusMapping ==
    \A p \in Procs :
        (mode = "api" /\ pc[p] = "ret") =>
            /\ result[p].kind = "invalid" =>
                  /\ HTTPStatus(p) = 400
                  /\ trace[p] = <<>>
                  /\ writes[p] = 0
                  /\ owner[p] = ""
            /\ (result[p].kind = "err" /\ ~RecordNotFound(p)) =>
                  HTTPStatus(p) = 500

\* a lookup of GET /api/nft/{token_id} met a fault of the driver and the
\* request was answered 500
C14_Witness ==
    \E p \in Procs :
        /\ mode = "api"
        /\ Returned(p, "GetNFTByTokenID")
        /\ StoreFailed(p)
        /\ HTTPStatus(p) = 500

\* a body of PUT /api/nft/owner that does not bind was answered 400
C14_WitnessInvalid ==
    \E p \in Procs :
        /\ mode = "api"
        /\ pc[p] = "ret"
        /\ op[p] = "UpdateOwner"
        /\ result[p] = Invalid
        /\ HTTPStatus(p) = 400

\* an insert conflict of POST /api/nft/owner was answered 500
C14_WitnessConflict ==
    \E p \in Procs :
        /\ mode = "api"
        /\ Returned(p, "GetAndStoreOwner")
        /\ result[p] = Fail(ErrCreate(DuplicateKey))
        /\ HTTPStatus(p) = 500

\* --------------------------------------------------------------- C16
\* C16 (CLI loop resilience): in cli mode the loop of runCLI has been left
\* exactly when the last option typed was 5; after any other input, be it
\* an option that is not on the menu, a token id that does not parse or an
\* operation that failed, the loop is back at its prompt and takes the
\* next input.
C16_LoopResilience ==
    mode = "cli" =>
        /\ pc[1] = "exit" <=> choice = "5"
        /\ (choice # "" /\ choice # "5") => pc[1] # "exit"
        /\ (pc[1] = "ret" /\ calls < MaxCalls) => ENABLED runCLI(1)

\* an operation failed, the next input was not on the menu, and the loop is
\* at its prompt again
C16_Witness ==
    /\ mode = "cli"
    /\ calls = 2
    /\ Len(hist) = 1
    /\ hist[1].result.kind = "err"
    /\ choice = "9"
    /\ pc[1] = "ret"
    /\ result[1] = Invalid

\* --------------------------------------------------------------- C17
\* C17 (owner non-emptiness): every stored row has an owner that is not
\* empty and is one of the address texts GetOwnerOf returns (owner.Hex(),
\* 42 characters).
C17_OwnerNonEmpty ==
    \A r \in db : r.owner # "" /\ r.owner \in Owners

\* an update has stored the other owner in the row an earlier run left
C17_Witness ==
    \E p \in Procs :
        /\ Returned(p, "UpdateOwner")
        /\ result[p].kind = "ok"
        /\ result[p].nft \in db
        /\ owner[p] = "0x2222"
        /\ result[p].nft.owner = owner[p]
        /\ \E r \in dbAtCall[p] : r.owner = "0x1111"

\* --------------------------------------------------------------- C18
\* the kinds of the accesses request p has made, in order
Shape(p) == [i \in 1..Len(trace[p]) |-> trace[p][i][1]]

\* C18 (operation shape): at every point of a GetAndStoreOwner or an
\* UpdateOwner the accesses made so far are a prefix of: one chain call,
\* one table read, one table write; the table is touched only after the
\* chain call succeeded, and a call that has returned made its one chain
\* call.
C18_OperationShape ==
    \A p \in Procs :
        ( /\ op[p] \in {"GetAndStoreOwner", "UpdateOwner"}
          /\ pc[p] # "idle"
          /\ result[p].kind # "invalid" ) =>
            /\ Len(trace[p]) <= 3
            /\ \A i \in 1..Len(trace[p]) :
                  Shape(p)[i] = <<"chain", "read", "write">>[i]
            /\ Len(trace[p]) >= 2 => trace[p][1] = <<"chain", "ok">>
            /\ pc[p] = "ret" => Len(trace[p]) >= 1
            /\ writes[p] <= 1
            /\ writes[p] = 1 => Len(trace[p]) = 3

\* an update has made its chain call, its read and its write
C18_Witness ==
    \E p \in Procs :
        /\ Returned(p, "UpdateOwner")
        /\ trace[p] = << <<"chain", "ok">>, <<"read", "found">>, <<"write", "ok">> >>

\* --------------------------------------------------------------- C19
\* C19 (store failures never suppressed): once a table access of a call
\* has failed (a lookup with a driver fault, an insert with a fault or a
\* key conflict, a save with a fault) the call has returned a failure, the
\* failed access is its last, it has written nothing, and, run without
\* interleaving, the table is as it was before the call.
C19_StoreFailurePropagates ==
    \A p \in Procs :
        \A i \in 1..Len(trace[p]) :
            ( /\ pc[p] # "idle"
              /\ trace[p][i][1] \in {"read", "write"}
              /\ trace[p][i][2] \in {"fault", "conflict"} ) =>
                /\ pc[p] \in {"ret", "exit"}
                /\ result[p].kind = "err"
                /\ i = Len(trace[p])
                /\ writes[p] = 0
                /\ alone[p] => db = dbAtCall[p]

\* the save of an update met a fault: the update failed and the row is as
\* it was
C19_Witness ==
    \E p \in Procs :
        /\ Returned(p, "UpdateOwner")
        /\ alone[p]
        /\ Len(trace[p]) = 3
        /\ trace[p][3] = <<"write", "fault">>
        /\ result[p] = Fail(ErrUpdate(StoreFault))
        /\ db = dbAtCall[p]
        /\ First(db, tokenID[p]) # {}

\* --------------------------------------------------------------- C15
\* C15 (default run mode): a program started without -mode goes on with
\* runCLI if it goes on at all, and runAPIServer runs only when -mode=api
\* was given.
C15_DefaultModeCLI ==
    /\ (front.arg = "" /\ front.run \in {"runCLI", "runAPIServer"})
          => front.run = "runCLI"
    /\ front.run = "runAPIServer" => front.arg = "api"

\* --------------------------------------------------------------- C20
\* C20 (token id domain): a token id handed to the service by any entry
\* point (menu options 1 to 3, the GET path, the POST and PUT bodies) is at
\* most 1<<32 - 1, and the int64 GetOwnerOf makes of it is not negative.
C20_TokenIdFits32 ==
    /\ front.stage \in {"service", "chain"}
          => ~DecLess(MaxUint32, front.tokenID)
    /\ front.stage = "chain" => ~front.tokenIdBig.neg

\* --------------------------------------------------------------- C21
\* C21 (monotonic updated_at under interleaving): in every step, whatever
\* requests are in flight, the updated_at stored for a token is not earlier
\* afterwards than it was before.
C21_UpdatedAtMonotonic ==
    [][ \A r \in db : \A s \in First(db', r.token_id) :
          r.updated_at <= s.updated_at ]_vars

\* --------------------------------------------------------------- C23
\* C23 (token id 0 at the HTTP boundary): a body of POST or PUT
\* /api/nft/owner that carries token_id 0 is handed to the service, not
\* turned away with 400.
C23_TokenZeroAccepted ==
    ( /\ front.run = "runAPIServer"
      /\ front.op \in {"GetAndStoreOwner", "UpdateOwner"}
      /\ front.text = <<"0">> )
    => front.stage \in {"service", "chain"}

\* --------------------------------------------------------------- C22
\* C22 (no stale overwrite between concurrent updates): when two UpdateOwner
\* calls on one stored token overlapped, both succeeded and no request is
\* in flight any longer, the stored owner is the owner the later of the two
\* chain reads returned.
C22_NoStaleOverwrite ==
    \A p \in Procs : \A q \in Procs \ {p} :
        ( /\ Returned(p, "UpdateOwner") /\ result[p].kind = "ok"
          /\ Returned(q, "UpdateOwner") /\ result[q].kind = "ok"
          /\ tokenID[p] = tokenID[q]
          /\ ~alone[p] /\ ~alone[q]
          /\ \A r \in Procs : Free(r)
          /\ lastRead = p )
        => \A r \in First(db, tokenID[p]) : r.owner = owner[p]

====
